---- MODULE Spec2Model ----
(***************************************************************************)
(* Model of the chat client's streaming response consumer                  *)
(* (frontend/src/components/ChatInterface.jsx, handleSubmit).              *)
(*                                                                         *)
(* Text is a sequence of one-character strings.  The response body is a    *)
(* sequence of bytes; the atoms used are                                   *)
(*   "P"   the six bytes of the field prefix 'data: '                      *)
(*   "{" "}"  the delimiters of the JSON payload                           *)
(*   "t" "s" "e" "u"  the discriminator: token, sources, error, unknown    *)
(*   "a"   a one-byte character of a payload string                        *)
(*   "H" "L"  lead and continuation byte of the two-byte character "E"     *)
(*   "x"   a byte that is not valid JSON                                   *)
(*   "nl"  the newline                                                     *)
(* "?" is U+FFFD, the replacement character the decoder emits.             *)
(***************************************************************************)
EXTENDS Integers, Sequences, FiniteSets, TLC

VARIABLES
    messages,        \* useState([]): the committed conversation list
    input,           \* useState(''): the pending input text
    loading,         \* useState(false): the active-submission flag
    conversationId,  \* useState(() => random id)
    queue,           \* state updates enqueued by the handler, not yet rendered
    pc,              \* position of the running handleSubmit: idle, fetching, reading
    am,              \* the handler's local object assistantMessage
    requests,        \* the network requests opened so far (bodies of POST /query)
    wire,            \* bytes of the response body sent and not yet read
    budget,          \* number of pieces the server may still write in the session
    tokens,          \* log: the contents of the Token events parsed from the stream, joined
    firstError,      \* log: the text of the first Error event parsed from the stream
    sent,            \* log: the pieces the server has written to the current body
    partial,         \* log: the bytes read since the last newline read
    partialText,     \* log: the text decoder.decode returned for those bytes
    outcome          \* log: how the last lifecycle ended: none, done, prefail, midfail

vars == <<messages, input, loading, conversationId, queue, pc, am, requests,
          wire, budget, tokens, firstError, sent, partial,
          partialText, outcome>>

(***************************************************************************)
(* Bounds.                                                                 *)
(***************************************************************************)
MaxSubmits == 2      \* accepted submissions in one session
MaxRecords == 3      \* pieces the server writes in one session
MaxLiveRecords == 2  \* the same, in the sessions checked for progress
MaxBacklog == 1      \* records the server writes ahead of the reader

(***************************************************************************)
(* Input domains.                                                          *)
(***************************************************************************)
InputTexts == { <<>>, <<" ">>, <<"q">> }
ConversationIds == { "id1" }
Collection == "default"
FailureMessages == { "Failed to fetch" }

\* what the server writes to the response body in one piece
TokA == <<"P", "{", "t", "a", "}", "nl">>
TokE == <<"P", "{", "t", "H", "L", "}", "nl">>
SrcA == <<"P", "{", "s", "a", "}", "nl">>
SrcE == <<"P", "{", "s", "H", "L", "a", "}", "nl">>
ErrA == <<"P", "{", "e", "a", "}", "nl">>
NoPrefix == <<"{", "t", "a", "}", "nl">>
NotJson == <<"P", "x", "nl">>
UnknownType == <<"P", "{", "u", "a", "}", "nl">>
Malformed == NoPrefix \o NotJson \o UnknownType
\* a token record the server wrote without a newline after it
TokTail == <<"P", "{", "t", "a", "}">>
Writes == { TokA, TokE, SrcA, SrcE, ErrA, Malformed, TokTail }

(***************************************************************************)
(* Pure functions of the handler.                                          *)
(***************************************************************************)
\* String.prototype.trim on the input text
RECURSIVE TrimLeft(_)
TrimLeft(s) ==
    IF s # <<>> /\ Head(s) = " " THEN TrimLeft(Tail(s)) ELSE s

RECURSIVE TrimRight(_)
TrimRight(s) ==
    IF s # <<>> /\ s[Len(s)] = " " THEN TrimRight(SubSeq(s, 1, Len(s) - 1)) ELSE s

Trim(s) == TrimRight(TrimLeft(s))

\* new TextDecoder().decode(value): every call decodes its chunk on its own;
\* a lead byte without its continuation byte, and a continuation byte without
\* its lead byte, each become the replacement character
RECURSIVE Decode(_)
Decode(bytes) ==
    IF bytes = <<>> THEN <<>>
    ELSE IF Head(bytes) = "H"
         THEN IF Len(bytes) >= 2 /\ bytes[2] = "L"
              THEN <<"E">> \o Decode(SubSeq(bytes, 3, Len(bytes)))
              ELSE <<"?">> \o Decode(Tail(bytes))
         ELSE IF Head(bytes) = "L"
              THEN <<"?">> \o Decode(Tail(bytes))
              ELSE <<Head(bytes)>> \o Decode(Tail(bytes))

\* chunk.split('\n')
RECURSIVE Split(_)
Split(text) ==
    IF \E i \in 1..Len(text) : text[i] = "nl"
    THEN LET i == CHOOSE j \in 1..Len(text) :
                      /\ text[j] = "nl"
                      /\ \A k \in 1..(j - 1) : text[k] # "nl"
         IN  <<SubSeq(text, 1, i - 1)>> \o Split(SubSeq(text, i + 1, Len(text)))
    ELSE <<text>>

\* line.startsWith('data: ')
StartsWithData(line) == line # <<>> /\ Head(line) = "P"

\* line.slice(6)
Slice6(line) == Tail(line)

PayloadChars == { "a", "E", "?" }
Discriminators == { "t", "s", "e", "u" }

\* JSON.parse(line.slice(6)) followed by the reads of data.type and of the
\* payload field: ok is FALSE where JSON.parse throws
JsonParse(s) ==
    IF /\ Len(s) >= 3
       /\ s[1] = "{"
       /\ s[Len(s)] = "}"
       /\ s[2] \in Discriminators
       /\ \A i \in 3..(Len(s) - 1) : s[i] \in PayloadChars
    THEN [ok |-> TRUE, type |-> s[2], payload |-> SubSeq(s, 3, Len(s) - 1)]
    ELSE [ok |-> FALSE, type |-> "none", payload |-> <<>>]

(***************************************************************************)
(* Objects and state updates.                                              *)
(***************************************************************************)
\* a list element that is the very object assistantMessage, not a copy of it
Ref == [ref |-> "assistantMessage"]

NewAssistantMessage == [role |-> "assistant", content |-> <<>>, sources |-> <<>>]

UserMessage(text) == [role |-> "user", content |-> text]

FailureMessage(text) == [role |-> "assistant", content |-> <<"Error: ">> \o <<text>>]

\* what a reader of the list sees in place of element m when the local object is a
Deref(m, a) == IF m = Ref THEN a ELSE m

\* the conversation as a render of the committed state shows it
Conversation == [i \in DOMAIN messages |-> Deref(messages[i], am)]

\* setMessages(prev => [...prev, m])
AppendUpdate(m) == [op |-> "append", msg |-> m]

\* setMessages(prev => { const n = [...prev]; n[n.length - 1] = { ...assistantMessage }; return n })
\* The updater runs either at the call (eager: the copy is taken now) or at the
\* next render (the copy is taken then, msg is Ref until then).
ReplaceLastUpdate(a, eager) == [op |-> "replaceLast", msg |-> IF eager THEN a ELSE Ref]

\* setLoading(false)
LoadingUpdate == [op |-> "setLoading", msg |-> Ref]

\* variant of ApplyUpdate: the copy is written one place too early
ApplyUpdateOffByOne(ms, u, a) ==
    IF u.op = "append" THEN Append(ms, u.msg)
    ELSE IF u.op = "replaceLast"
         THEN IF Len(ms) < 2 THEN ms
              ELSE [ms EXCEPT ![Len(ms) - 1] = Deref(u.msg, a)]
         ELSE ms

\* one updater applied to the list ms, the local object being a
ApplyUpdate(ms, u, a) ==
    IF u.op = "append" THEN Append(ms, u.msg)
    ELSE IF u.op = "replaceLast"
         THEN IF ms = <<>> THEN ms
              ELSE [ms EXCEPT ![Len(ms)] = Deref(u.msg, a)]
         ELSE ms

\* the render commits the queued updaters in the order of their calls
RECURSIVE ApplyQueue(_, _, _)
ApplyQueue(ms, q, a) ==
    IF q = <<>> THEN ms
    ELSE ApplyQueue(ApplyUpdate(ms, Head(q), a), Tail(q), a)

ClearsLoading(q) == \E i \in DOMAIN q : q[i].op = "setLoading"

(***************************************************************************)
(* The body of the read loop: one line of one chunk.                       *)
(* st = [am, queue, tokens, firstError] is threaded through the lines.     *)
(***************************************************************************)
NoError == [seen |-> FALSE, text |-> <<>>]

\* variant of ApplyData: an error is added to the content accumulated so far
ApplyDataErrorAppends(st, data, eager) ==
    IF data.type = "t"
    THEN LET a == [st.am EXCEPT !.content = st.am.content \o data.payload]
         IN  [st EXCEPT !.am = a,
                        !.queue = Append(st.queue, ReplaceLastUpdate(a, eager)),
                        !.tokens = st.tokens \o data.payload]
    ELSE IF data.type = "s"
    THEN [st EXCEPT !.am = [st.am EXCEPT !.sources = data.payload]]
    ELSE IF data.type = "e"
    THEN LET a == [st.am EXCEPT !.content =
                       st.am.content \o <<"Error: ">> \o data.payload]
         IN  [st EXCEPT !.am = a,
                        !.queue = Append(st.queue, ReplaceLastUpdate(a, eager)),
                        !.firstError = IF st.firstError.seen THEN st.firstError
                                       ELSE [seen |-> TRUE, text |-> data.payload]]
    ELSE st

\* variant of ApplyData: the items of a sources event are added to the list
ApplyDataSourcesMerge(st, data, eager) ==
    IF data.type = "t"
    THEN LET a == [st.am EXCEPT !.content = st.am.content \o data.payload]
         IN  [st EXCEPT !.am = a,
                        !.queue = Append(st.queue, ReplaceLastUpdate(a, eager)),
                        !.tokens = st.tokens \o data.payload]
    ELSE IF data.type = "s"
    THEN [st EXCEPT !.am = [st.am EXCEPT !.sources = st.am.sources \o data.payload]]
    ELSE IF data.type = "e"
    THEN LET a == [st.am EXCEPT !.content = <<"Error: ">> \o data.payload]
         IN  [st EXCEPT !.am = a,
                        !.queue = Append(st.queue, ReplaceLastUpdate(a, eager)),
                        !.firstError = IF st.firstError.seen THEN st.firstError
                                       ELSE [seen |-> TRUE, text |-> data.payload]]
    ELSE st

\* variant of ApplyData: a token takes the place of the content
ApplyDataTokenOverwrites(st, data, eager) ==
    IF data.type = "t"
    THEN LET a == [st.am EXCEPT !.content = data.payload]
         IN  [st EXCEPT !.am = a,
                        !.queue = Append(st.queue, ReplaceLastUpdate(a, eager)),
                        !.tokens = st.tokens \o data.payload]
    ELSE IF data.type = "s"
    THEN [st EXCEPT !.am = [st.am EXCEPT !.sources = data.payload]]
    ELSE IF data.type = "e"
    THEN LET a == [st.am EXCEPT !.content = <<"Error: ">> \o data.payload]
         IN  [st EXCEPT !.am = a,
                        !.queue = Append(st.queue, ReplaceLastUpdate(a, eager)),
                        !.firstError = IF st.firstError.seen THEN st.firstError
                                       ELSE [seen |-> TRUE, text |-> data.payload]]
    ELSE st

\* variant of ApplyData: a token is put in front of the content
ApplyDataPrepend(st, data, eager) ==
    IF data.type = "t"
    THEN LET a == [st.am EXCEPT !.content = data.payload \o st.am.content]
         IN  [st EXCEPT !.am = a,
                        !.queue = Append(st.queue, ReplaceLastUpdate(a, eager)),
                        !.tokens = st.tokens \o data.payload]
    ELSE IF data.type = "s"
    THEN [st EXCEPT !.am = [st.am EXCEPT !.sources = data.payload]]
    ELSE IF data.type = "e"
    THEN LET a == [st.am EXCEPT !.content = <<"Error: ">> \o data.payload]
         IN  [st EXCEPT !.am = a,
                        !.queue = Append(st.queue, ReplaceLastUpdate(a, eager)),
                        !.firstError = IF st.firstError.seen THEN st.firstError
                                       ELSE [seen |-> TRUE, text |-> data.payload]]
    ELSE st

ApplyData(st, data, eager) ==
    IF data.type = "t"
    THEN LET a == [st.am EXCEPT !.content = st.am.content \o data.payload]
         IN  [st EXCEPT !.am = a,
                        !.queue = Append(st.queue, ReplaceLastUpdate(a, eager)),
                        !.tokens = st.tokens \o data.payload]
    ELSE IF data.type = "s"
    THEN [st EXCEPT !.am = [st.am EXCEPT !.sources = data.payload]]
    ELSE IF data.type = "e"
    THEN LET a == [st.am EXCEPT !.content = <<"Error: ">> \o data.payload]
         IN  [st EXCEPT !.am = a,
                        !.queue = Append(st.queue, ReplaceLastUpdate(a, eager)),
                        !.firstError = IF st.firstError.seen THEN st.firstError
                                       ELSE [seen |-> TRUE, text |-> data.payload]]
    ELSE st

\* variant of ProcessLine: a line without the prefix is parsed as it is
ProcessLineAnyPrefix(st, line, eager) ==
    LET data == JsonParse(IF StartsWithData(line) THEN Slice6(line) ELSE line)
    IN  IF data.ok THEN ApplyData(st, data, eager) ELSE st

ProcessLine(st, line, eager) ==
    IF StartsWithData(line)
    THEN LET data == JsonParse(Slice6(line))
         IN  IF data.ok THEN ApplyData(st, data, eager) ELSE st
    ELSE st

\* variant of ProcessLines: the text after the last newline is held back
RECURSIVE ProcessLinesHoldLast(_, _, _)
ProcessLinesHoldLast(st, lines, eager) ==
    IF Len(lines) <= 1 THEN st
    ELSE ProcessLinesHoldLast(ProcessLine(st, Head(lines), eager), Tail(lines), eager)

RECURSIVE ProcessLines(_, _, _)
ProcessLines(st, lines, eager) ==
    IF lines = <<>> THEN st
    ELSE ProcessLines(ProcessLine(st, Head(lines), eager), Tail(lines), eager)

\* the bytes of s after its last newline
RECURSIVE AfterLastNewline(_)
AfterLastNewline(s) ==
    IF s = <<>> \/ s[Len(s)] = "nl" THEN <<>>
    ELSE AfterLastNewline(SubSeq(s, 1, Len(s) - 1)) \o <<s[Len(s)]>>

HasNewline(s) == \E i \in DOMAIN s : s[i] = "nl"

Newlines(s) == Cardinality({i \in DOMAIN s : s[i] = "nl"})

\* the message the read loop builds when every piece the server wrote
\* arrives as one chunk of its own
RECURSIVE FoldWrites(_, _)
FoldWrites(st, ws) ==
    IF ws = <<>> THEN st
    ELSE FoldWrites(ProcessLines(st, Split(Decode(Head(ws))), TRUE), Tail(ws))

LineFold ==
    FoldWrites([am |-> NewAssistantMessage, queue |-> <<>>, tokens |-> <<>>,
                firstError |-> NoError], sent).am

(***************************************************************************)
(* Initial state: the component after its first render.                    *)
(***************************************************************************)
InitWith(pieces) ==
    /\ messages = <<>>
    /\ input = <<>>
    /\ loading = FALSE
    /\ conversationId \in ConversationIds
    /\ queue = <<>>
    /\ pc = "idle"
    /\ am = NewAssistantMessage
    /\ requests = <<>>
    /\ wire = <<>>
    /\ budget = pieces
    /\ tokens = <<>>
    /\ firstError = NoError
    /\ sent = <<>>
    /\ partial = <<>>
    /\ partialText = <<>>
    /\ outcome = "none"

Init == InitWith(MaxRecords)

(***************************************************************************)
(* Actions.                                                                *)
(***************************************************************************)
\* onChange of the input element, which is disabled while loading:
\* setInput(e.target.value)
Type(text) ==
    /\ ~loading
    /\ input' = text
    /\ UNCHANGED <<messages, loading, conversationId, queue, pc, am, requests,
                   wire, budget, tokens, firstError, sent, partial,
                   partialText, outcome>>

\* variant of Rejects: the text is not looked at
RejectsWhileLoadingOnly == loading

\* the guard of handleSubmit: if (!input.trim() || loading) return
Rejects == Trim(input) = <<>> \/ loading

\* handleSubmit, the early return
SubmitRejected ==
    /\ Rejects
    /\ UNCHANGED vars

\* variant of SubmitAccepted: an id is generated for every submission
SubmitAcceptedFreshId ==
    /\ ~Rejects
    /\ Len(requests) < MaxSubmits
    /\ messages' = ApplyQueue(messages,
                              Append(queue, AppendUpdate(UserMessage(input))), am)
    /\ input' = <<>>
    /\ loading' = TRUE
    /\ queue' = <<>>
    /\ conversationId' = IF conversationId = "id1" THEN "id2" ELSE "id1"
    /\ requests' = Append(requests, [query |-> input,
                                     collection |-> Collection,
                                     conversation_id |-> conversationId',
                                     use_rag |-> TRUE])
    /\ pc' = "fetching"
    /\ wire' = <<>>
    /\ tokens' = <<>>
    /\ firstError' = NoError
    /\ sent' = <<>>
    /\ partial' = <<>>
    /\ partialText' = <<>>
    /\ outcome' = "none"
    /\ UNCHANGED <<am, budget>>

\* variant of SubmitAccepted: setLoading(true) is left out
SubmitAcceptedNoFlag ==
    /\ ~Rejects
    /\ Len(requests) < MaxSubmits
    /\ messages' = ApplyQueue(messages,
                              Append(queue, AppendUpdate(UserMessage(input))), am)
    /\ input' = <<>>
    /\ queue' = <<>>
    /\ requests' = Append(requests, [query |-> input,
                                     collection |-> Collection,
                                     conversation_id |-> conversationId,
                                     use_rag |-> TRUE])
    /\ pc' = "fetching"
    /\ wire' = <<>>
    /\ tokens' = <<>>
    /\ firstError' = NoError
    /\ sent' = <<>>
    /\ partial' = <<>>
    /\ partialText' = <<>>
    /\ outcome' = "none"
    /\ UNCHANGED <<loading, conversationId, am, budget>>

\* handleSubmit from its guard to the call of fetch.  The three updates are
\* made in the event handler, so they are rendered when the handler returns
\* to the event loop at its first await.
SubmitAccepted ==
    /\ ~Rejects
    /\ Len(requests) < MaxSubmits
    /\ messages' = ApplyQueue(messages,
                              Append(queue, AppendUpdate(UserMessage(input))), am)
    /\ input' = <<>>
    /\ loading' = TRUE
    /\ queue' = <<>>
    /\ requests' = Append(requests, [query |-> input,
                                     collection |-> Collection,
                                     conversation_id |-> conversationId,
                                     use_rag |-> TRUE])
    /\ pc' = "fetching"
    /\ wire' = <<>>
    /\ tokens' = <<>>
    /\ firstError' = NoError
    /\ sent' = <<>>
    /\ partial' = <<>>
    /\ partialText' = <<>>
    /\ outcome' = "none"
    /\ UNCHANGED <<conversationId, am, budget>>

\* variant of FetchResolve: the placeholder is not appended
FetchResolveNoPlaceholder ==
    /\ pc = "fetching"
    /\ am' = NewAssistantMessage
    /\ messages' = [i \in DOMAIN messages |-> Deref(messages[i], am)]
    /\ pc' = "reading"
    /\ UNCHANGED <<input, loading, conversationId, queue, requests, wire,
                   budget, tokens, firstError, sent, partial, partialText,
                   outcome>>

\* fetch resolves: the reader, the decoder and assistantMessage are created
\* and the placeholder, the object itself, is appended
FetchResolve ==
    /\ pc = "fetching"
    /\ am' = NewAssistantMessage
    /\ messages' = [i \in DOMAIN messages |-> Deref(messages[i], am)]
    /\ queue' = Append(queue, AppendUpdate(Ref))
    /\ pc' = "reading"
    /\ UNCHANGED <<input, loading, conversationId, requests, wire,
                   budget, tokens, firstError, sent, partial, partialText,
                   outcome>>

\* variant of Catch: the error message is written over the last message
CatchOverwritesLast(text, how) ==
    /\ queue' = queue \o <<ReplaceLastUpdate(FailureMessage(text), TRUE),
                            LoadingUpdate>>
    /\ pc' = "idle"
    /\ outcome' = how
    /\ wire' = <<>>

\* variant of Catch: the exception is logged and no message is appended
CatchLogsOnly(text, how) ==
    /\ queue' = Append(queue, LoadingUpdate)
    /\ pc' = "idle"
    /\ outcome' = how
    /\ wire' = <<>>

\* variant of Catch: setLoading(false) is reached only without an exception
CatchKeepsFlag(text, how) ==
    /\ queue' = Append(queue, AppendUpdate(FailureMessage(text)))
    /\ pc' = "idle"
    /\ outcome' = how
    /\ wire' = <<>>

\* the catch block followed by setLoading(false)
Catch(text, how) ==
    /\ queue' = queue \o <<AppendUpdate(FailureMessage(text)), LoadingUpdate>>
    /\ pc' = "idle"
    /\ outcome' = how
    /\ wire' = <<>>

\* fetch rejects: the request could not be sent
FetchFail(text) ==
    /\ pc = "fetching"
    /\ Catch(text, "prefail")
    /\ UNCHANGED <<messages, input, loading, conversationId, am, requests, budget,
                   tokens, firstError, sent, partial, partialText>>

\* the piece ends with a newline
Terminated(rec) == rec # <<>> /\ rec[Len(rec)] = "nl"

\* the server writes one piece to the response body; a record without its
\* newline is the last thing a server writes
ServerSend(rec) ==
    /\ pc = "reading"
    /\ budget > 0
    /\ Newlines(wire) < MaxBacklog
    /\ sent # <<>> => Terminated(sent[Len(sent)])
    /\ wire' = wire \o rec
    /\ budget' = budget - 1
    /\ sent' = Append(sent, rec)
    /\ UNCHANGED <<messages, input, loading, conversationId, queue, pc, am,
                   requests, tokens, firstError, partial, partialText, outcome>>

\* reader.read() resolves with the next n bytes: one pass of the while loop
ReadChunk(n, eager) ==
    /\ pc = "reading"
    /\ n \in 1..Len(wire)
    /\ LET value == SubSeq(wire, 1, n)
           chunk == Decode(value)
           lines == Split(chunk)
           st == ProcessLines([am |-> am, queue |-> queue, tokens |-> tokens,
                               firstError |-> firstError], lines, eager)
       IN  /\ am' = st.am
           /\ queue' = st.queue
           /\ tokens' = st.tokens
           /\ firstError' = st.firstError
           /\ partial' = IF HasNewline(value) THEN AfterLastNewline(value)
                         ELSE partial \o value
           /\ partialText' = IF HasNewline(value) THEN lines[Len(lines)]
                             ELSE partialText \o chunk
    /\ wire' = SubSeq(wire, n + 1, Len(wire))
    /\ UNCHANGED <<messages, input, loading, conversationId, pc, requests,
                   budget, sent, outcome>>

\* the server has ended the body and every byte of it is read:
\* reader.read() resolves with done: break, then setLoading(false)
ReadDone ==
    /\ pc = "reading"
    /\ wire = <<>>
    /\ queue' = Append(queue, LoadingUpdate)
    /\ pc' = "idle"
    /\ outcome' = "done"
    /\ UNCHANGED <<messages, input, loading, conversationId, am, requests, wire,
                   budget, tokens, firstError, sent, partial,
                   partialText>>

\* reader.read() rejects: the stream ends abnormally
ReadFail(text) ==
    /\ pc = "reading"
    /\ Catch(text, "midfail")
    /\ UNCHANGED <<messages, input, loading, conversationId, am, requests, budget,
                   tokens, firstError, sent, partial, partialText>>

\* the render that commits the updates the handler made after an await
Render ==
    /\ queue # <<>>
    /\ messages' = ApplyQueue(messages, queue, am)
    /\ loading' = IF ClearsLoading(queue) THEN FALSE ELSE loading
    /\ queue' = <<>>
    /\ UNCHANGED <<input, conversationId, pc, am, requests, wire,
                   budget, tokens, firstError, sent, partial, partialText,
                   outcome>>

Next ==
    \/ \E text \in InputTexts : Type(text)
    \/ SubmitRejected
    \/ SubmitAccepted
    \/ FetchResolve
    \/ \E text \in FailureMessages : FetchFail(text)
    \/ \E rec \in Writes : ServerSend(rec)
    \/ \E n \in 1..Len(wire), eager \in BOOLEAN : ReadChunk(n, eager)
    \/ ReadDone
    \/ \E text \in FailureMessages : ReadFail(text)
    \/ Render

Spec == Init /\ [][Next]_vars

\* The network answers every request, the body ends or breaks, every read
\* resolves or rejects, and React renders the updates it has queued.
LiveInit == InitWith(MaxLiveRecords)

FairSpec ==
    /\ LiveInit
    /\ [][Next]_vars
    /\ WF_vars(FetchResolve \/ \E text \in FailureMessages : FetchFail(text))
    /\ WF_vars(\E n \in 1..Len(wire), eager \in BOOLEAN : ReadChunk(n, eager))
    /\ WF_vars(ReadDone)
    /\ WF_vars(Render)

(***************************************************************************)
(* Helpers of the properties.                                              *)
(***************************************************************************)
LastOf(seq) == seq[Len(seq)]

\* the conversation as the next render will show it
PendingConversation ==
    LET ms == ApplyQueue(messages, queue, am)
    IN  [i \in DOMAIN ms |-> Deref(ms[i], am)]

UserCount(conv) == Cardinality({i \in DOMAIN conv : conv[i].role = "user"})

RoleAt(i) == Conversation[i].role

IsFailureMessage(m) == \E text \in FailureMessages : m = FailureMessage(text)

IsSuffix(s, t) ==
    /\ Len(s) <= Len(t)
    /\ s = SubSeq(t, Len(t) - Len(s) + 1, Len(t))

\* a step of the read loop that consumed a chunk
ChunkStep ==
    /\ pc = "reading"
    /\ pc' = "reading"
    /\ Len(wire') < Len(wire)

\* the bytes a step of the read loop consumed, and the events on its lines
ChunkRead == SubSeq(wire, 1, Len(wire) - Len(wire'))

IsEvent(line) ==
    /\ StartsWithData(line)
    /\ JsonParse(Slice6(line)).ok
    /\ JsonParse(Slice6(line)).type \in {"t", "s", "e"}

EventsOf(bytes) ==
    LET lines == SelectSeq(Split(Decode(bytes)), IsEvent)
    IN  [i \in DOMAIN lines |-> JsonParse(Slice6(lines[i]))]

\* the last event of type ty among the events ev
LastOfType(ev, ty) ==
    ev[CHOOSE i \in DOMAIN ev :
           /\ ev[i].type = ty
           /\ \A j \in DOMAIN ev : j > i => ev[j].type # ty]

(***************************************************************************)
(* C1.  While a submission is active no step appends a user message or     *)
(* opens a network request, whatever the position of the in-flight         *)
(* handler, and the flag is set for as long as a handler is running: at     *)
(* most one lifecycle is active.                                           *)
(***************************************************************************)
C1_OneActiveSubmission ==
    /\ [](pc # "idle" => loading)
    /\ [][loading => /\ requests' = requests
                     /\ UserCount(Conversation') = UserCount(Conversation)]_vars

\* a stream is being read, tokens have been applied, and a submit made now
\* is rejected
C1_Witness ==
    /\ loading
    /\ pc = "reading"
    /\ tokens # <<>>
    /\ wire # <<>>
    /\ ENABLED SubmitRejected
    /\ ~ENABLED SubmitAccepted

(***************************************************************************)
(* C2.  Every accepted submission is followed by a state in which the      *)
(* active-submission flag is clear, however its stream ends, and whenever  *)
(* the flag is clear a submit with non-blank text is accepted.             *)
(***************************************************************************)
C2_FlagEventuallyCleared ==
    /\ loading ~> ~loading
    /\ []((~loading /\ Trim(input) # <<>> /\ Len(requests) < MaxSubmits)
            => ENABLED SubmitAccepted)

\* a second submission has been accepted after the first one failed
C2_Witness ==
    /\ Len(requests) = 2
    /\ loading
    /\ \E i \in DOMAIN messages, text \in FailureMessages :
           messages[i] = FailureMessage(text)

(***************************************************************************)
(* C3.  When the stream has ended, the message the events were applied to  *)
(* is the one obtained when every line arrives whole, however the body was *)
(* divided into chunks.                                                    *)
(***************************************************************************)
C3_ChunkingIndependent ==
    (pc = "idle" /\ outcome = "done") => am = LineFold

(***************************************************************************)
(* C4.  When a stream without Error events has ended, the content of its   *)
(* assistant message in the conversation is the concatenation of the       *)
(* contents of the Token events parsed from it, in arrival order.          *)
(***************************************************************************)
C4_TokensConcatenated ==
    (~loading /\ ~firstError.seen) =>
        /\ outcome = "done" => LastOf(Conversation).content = tokens
        /\ outcome = "midfail" =>
               Conversation[Len(messages) - 1].content = tokens

\* two different tokens were applied, in this order
C4_Witness ==
    /\ ~loading
    /\ outcome = "done"
    /\ tokens = <<"a", "E">>
    /\ LastOf(Conversation).content = <<"a", "E">>

(***************************************************************************)
(* C5.  When the stream has ended normally, the last message of the        *)
(* conversation carries the items of the last Sources event.               *)
(***************************************************************************)
C5_SourcesShown ==
    (~loading /\ outcome = "done") =>
        LastOf(Conversation).sources = am.sources

(***************************************************************************)
(* C6.  A chunk made of bytes of malformed lines only (no prefix, payload  *)
(* that does not parse, unrecognized type) leaves the assistant message    *)
(* and the queued updates unchanged, and the loop goes on reading.         *)
(***************************************************************************)
C6_MalformedSkipped ==
    [][(pc = "reading" /\ wire # <<>> /\ IsSuffix(wire, Malformed)
            /\ Len(wire') < Len(wire) /\ outcome' # "midfail")
        => (ChunkStep /\ am' = am /\ queue' = queue /\ tokens' = tokens)]_vars

\* token a, the malformed lines, token E: the content is a E
C6_Witness ==
    /\ ~loading
    /\ outcome = "done"
    /\ sent = <<TokA, Malformed, TokE>>
    /\ LastOf(Conversation).content = <<"a", "E">>

(***************************************************************************)
(* C7.  Once an Error event has been applied, the content of the message   *)
(* stays "Error: " followed by the text of that event.                     *)
(***************************************************************************)
C7_ErrorTerminal ==
    firstError.seen => am.content = <<"Error: ">> \o firstError.text

(***************************************************************************)
(* C8.  The text decoded from the bytes of the current line, chunk by      *)
(* chunk, is the text decoded from those bytes at once.                    *)
(***************************************************************************)
C8_SplitCharacterDecoded == partialText = Decode(partial)

(***************************************************************************)
(* C9.  In every step the list does not shrink, every element but the last *)
(* is unchanged, and the last element changes only while the flag is set.  *)
(***************************************************************************)
C9_AppendOnlyExceptLast ==
    [][/\ Len(Conversation') >= Len(Conversation)
       /\ \A i \in 1..(Len(Conversation) - 1) : Conversation'[i] = Conversation[i]
       /\ (Len(Conversation) > 0 /\ ~loading) =>
              Conversation'[Len(Conversation)] = LastOf(Conversation)]_vars

\* the second stream is changing its message, below it the first exchange
C9_Witness ==
    /\ Len(messages) = 4
    /\ loading
    /\ pc = "reading"
    /\ LastOf(Conversation).content = <<"E">>
    /\ Conversation[2].content = <<"a">>

(***************************************************************************)
(* C10 as stated: while a submission is active the last message is the     *)
(* assistant message.                                                      *)
(***************************************************************************)
C10_PlaceholderBeforeRequest ==
    loading => (messages # <<>> /\ LastOf(Conversation).role = "assistant")

(***************************************************************************)
(* C10 amended.  While the response is awaited the flag is set and the     *)
(* last message is the user message of the request; once the response has  *)
(* arrived the last message of the conversation the next render shows is   *)
(* the assistant message with the content accumulated so far, empty until  *)
(* the first event is applied.                                             *)
(***************************************************************************)
C10_PlaceholderAfterResponse ==
    /\ pc = "fetching" =>
           /\ loading
           /\ messages # <<>>
           /\ LastOf(Conversation) = UserMessage(LastOf(requests).query)
    /\ pc = "reading" =>
           /\ loading
           /\ LastOf(PendingConversation).role = "assistant"
           /\ LastOf(PendingConversation).content = am.content
           /\ (tokens = <<>> /\ ~firstError.seen) => am.content = <<>>

\* the placeholder is rendered and nothing has been applied to it yet
C10_Witness ==
    /\ pc = "reading"
    /\ queue = <<>>
    /\ LastOf(Conversation) = NewAssistantMessage
    /\ Conversation[Len(messages) - 1].role = "user"

(***************************************************************************)
(* C11.  After a transport failure, before the response (fetch rejects)    *)
(* or while the body is read (a read rejects), the render that follows     *)
(* clears the flag and shows as last message an assistant message whose    *)
(* content is "Error: " followed by the message of the failure.            *)
(***************************************************************************)
C11_TransportFailureShown ==
    (pc = "idle" /\ outcome \in {"prefail", "midfail"}) =>
        IF queue = <<>>
        THEN /\ ~loading
             /\ \E text \in FailureMessages :
                    LastOf(Conversation) = FailureMessage(text)
        ELSE /\ ClearsLoading(queue)
             /\ \E text \in FailureMessages :
                    LastOf(PendingConversation) = FailureMessage(text)

\* a read failed after a token had been applied and rendered
C11_Witness ==
    /\ outcome = "midfail"
    /\ ~loading
    /\ tokens = <<"a">>
    /\ Conversation[Len(messages) - 1].content = <<"a">>
    /\ LastOf(Conversation) = FailureMessage("Failed to fetch")

(***************************************************************************)
(* C12.  A chunk whose last event is an Error event leaves the content of  *)
(* the assistant message equal to "Error: " followed by the text of that   *)
(* event, whatever tokens were accumulated before; its sources change      *)
(* only by a Sources event of the same chunk; and the last message of the  *)
(* conversation the next render shows has that content.                    *)
(***************************************************************************)
C12_ErrorReplacesContent ==
    [][LET ev == EventsOf(ChunkRead)
       IN  (ChunkStep /\ ev # <<>> /\ LastOf(ev).type = "e") =>
               /\ am'.content = <<"Error: ">> \o LastOf(ev).payload
               /\ (\A i \in DOMAIN ev : ev[i].type # "s") =>
                      am'.sources = am.sources
               /\ LastOf(PendingConversation').content =
                      <<"Error: ">> \o LastOf(ev).payload]_vars

\* token a and sources were applied, then the error a: the render shows the
\* error text alone
C12_Witness ==
    /\ pc = "reading"
    /\ queue = <<>>
    /\ sent = <<TokA, SrcA, ErrA>>
    /\ wire = <<>>
    /\ am.sources = <<"a">>
    /\ LastOf(Conversation).content = <<"Error: ", "a">>

(***************************************************************************)
(* C13.  In every state in which the pending text is empty or made of     *)
(* white space only, a submit takes the early return, which changes        *)
(* nothing, and cannot be accepted: no step taken with such a text opens   *)
(* a request, appends a user message or sets the flag.                     *)
(***************************************************************************)
C13_BlankSubmitNoOp ==
    /\ [](Trim(input) = <<>> => (ENABLED SubmitRejected /\ ~ENABLED SubmitAccepted))
    /\ [][Trim(input) = <<>> =>
               /\ requests' = requests
               /\ UserCount(Conversation') = UserCount(Conversation)
               /\ ~loading => ~loading']_vars

\* white space is typed after a first exchange has ended: submit is rejected
C13_Witness ==
    /\ input = <<" ">>
    /\ ~loading
    /\ pc = "idle"
    /\ Len(messages) = 2
    /\ Len(requests) = 1
    /\ ENABLED SubmitRejected

(***************************************************************************)
(* C14.  After a chunk with a Sources event the sources of the message in  *)
(* progress are the items of the last Sources event of the chunk, whatever *)
(* the sources were before, and a chunk with Sources events only leaves    *)
(* the content unchanged.                                                  *)
(***************************************************************************)
C14_SourcesReplaced ==
    [][LET ev == EventsOf(ChunkRead)
       IN  (ChunkStep /\ \E i \in DOMAIN ev : ev[i].type = "s") =>
               /\ am'.sources = LastOfType(ev, "s").payload
               /\ (\A i \in DOMAIN ev : ev[i].type = "s") =>
                      am'.content = am.content]_vars

\* token a, sources [E, a], then sources [a]: the sources are [a] and the
\* content is still a
C14_Witness ==
    /\ pc = "reading"
    /\ wire = <<>>
    /\ sent = <<TokA, SrcE, SrcA>>
    /\ firstError = NoError
    /\ am.sources = <<"a">>
    /\ am.content = <<"a">>

(***************************************************************************)
(* C15.  No step changes the conversation id, and every request opened so  *)
(* far carries it, however the lifecycles before it ended.                 *)
(***************************************************************************)
C15_ConversationIdFixed ==
    /\ [][conversationId' = conversationId]_vars
    /\ [](\A i \in DOMAIN requests :
              requests[i].conversation_id = conversationId)

\* the first stream ended after an Error event, the second request was
\* opened and its stream broke: both requests carry the id
C15_Witness ==
    /\ Len(requests) = 2
    /\ outcome = "midfail"
    /\ ~loading
    /\ Conversation[2].content = <<"Error: ", "a">>
    /\ requests[1].conversation_id = conversationId
    /\ requests[2].conversation_id = conversationId

(***************************************************************************)
(* C16 as stated: whenever no submission is active the roles alternate     *)
(* user, assistant, user, assistant.                                       *)
(***************************************************************************)
C16_RolesAlternate ==
    ~loading =>
        \A i \in DOMAIN messages :
            RoleAt(i) = IF i % 2 = 1 THEN "user" ELSE "assistant"

(***************************************************************************)
(* C16 amended.  Whenever no submission is active there is one user        *)
(* message for every accepted submit and each is followed by an assistant  *)
(* message; a second assistant message follows only after a read failed,   *)
(* and it is the error message of that failure: a lifecycle that ended     *)
(* with the end of the stream or before the response has added two         *)
(* messages, one that broke while the body was read has added three.       *)
(***************************************************************************)
C16_OneOrTwoAssistantMessages ==
    ~loading =>
        /\ UserCount(Conversation) = Len(requests)
        /\ messages # <<>> => RoleAt(1) = "user"
        /\ \A i \in DOMAIN messages :
               /\ RoleAt(i) = "user" =>
                      (i < Len(messages) /\ RoleAt(i + 1) = "assistant")
               /\ (i > 1 /\ RoleAt(i) = "assistant" /\ RoleAt(i - 1) = "assistant") =>
                      /\ IsFailureMessage(Conversation[i])
                      /\ RoleAt(i - 2) = "user"
        /\ outcome \in {"done", "prefail"} =>
               /\ RoleAt(Len(messages)) = "assistant"
               /\ RoleAt(Len(messages) - 1) = "user"
        /\ outcome = "midfail" =>
               /\ IsFailureMessage(LastOf(Conversation))
               /\ RoleAt(Len(messages) - 1) = "assistant"
               /\ RoleAt(Len(messages) - 2) = "user"

\* the first stream broke after a token, the second one ended normally:
\* user, partial answer, error message, user, answer
C16_Witness ==
    /\ ~loading
    /\ outcome = "done"
    /\ Len(messages) = 5
    /\ Conversation[2].content = <<"a">>
    /\ IsFailureMessage(Conversation[3])
    /\ RoleAt(4) = "user"
    /\ Conversation[5].content = <<"E">>

(***************************************************************************)
(* C17.  In every state between two passes of the read loop in which no    *)
(* Error event has been parsed, the last message of the conversation a     *)
(* render taken now shows has as content the tokens parsed so far, joined  *)
(* in arrival order; with no update waiting for a render it is the         *)
(* content of the committed list's last message.                           *)
(***************************************************************************)
C17_RenderShowsTokensSoFar ==
    (pc = "reading" /\ ~firstError.seen) =>
        /\ LastOf(PendingConversation).content = tokens
        /\ queue = <<>> => LastOf(Conversation).content = tokens

\* between two chunks: token a is rendered, token E is parsed and its update
\* waits for the render, more bytes are to come
C17_Witness ==
    /\ pc = "reading"
    /\ ~firstError.seen
    /\ wire # <<>>
    /\ queue # <<>>
    /\ tokens = <<"a", "E">>
    /\ messages[Len(messages)] = [role |-> "assistant", content |-> <<"a">>,
                                  sources |-> <<>>]
    /\ LastOf(PendingConversation).content = <<"a", "E">>

(***************************************************************************)
(* C18.  When the text after the last newline of a chunk is a well-formed  *)
(* record, the pass of the loop that reads the chunk applies it: a token   *)
(* ends the content and the log of tokens, sources become the sources, an  *)
(* error becomes the content.  So a record that ends the body without a    *)
(* newline is applied when its chunk is read.  (A record ends with the     *)
(* closing brace, so only the chunks that end with it are looked at.)      *)
(***************************************************************************)
C18_UnterminatedRecordApplied ==
    [][(ChunkStep /\ wire[Len(wire) - Len(wire')] = "}") =>
           \A line \in {LastOf(Split(Decode(ChunkRead)))} :
               IsEvent(line) =>
                   \A data \in {JsonParse(Slice6(line))} :
                       /\ data.type = "t" =>
                              /\ IsSuffix(data.payload, tokens')
                              /\ IsSuffix(data.payload, am'.content)
                              /\ Len(tokens') >= Len(tokens) + Len(data.payload)
                       /\ data.type = "s" => am'.sources = data.payload
                       /\ data.type = "e" =>
                              am'.content = <<"Error: ">> \o data.payload]_vars

\* the body was token E, newline, token a and no newline: both are shown
C18_Witness ==
    /\ ~loading
    /\ outcome = "done"
    /\ sent = <<TokE, TokTail>>
    /\ tokens = <<"E", "a">>
    /\ LastOf(Conversation).content = <<"E", "a">>

====
